---- MODULE Spec2Model ----
(***************************************************************************)
(* GridSense-AI: the Pathway stream processor                              *)
(* (server/services/pathway/processor.py, utils.py, config.py) and the     *)
(* routes that read its output (server/routes/pathway_routes.py).          *)
(*                                                                         *)
(* Two generators poll the device source and the grid source and yield     *)
(* rows to two connectors; three routes read the changelogs back.          *)
(* The pipeline owns two input tables (device telemetry, grid context)     *)
(* fed by two connectors, and three derived tables written as jsonlines    *)
(* changelogs: anomalies (filter + select), device_stats (groupby/reduce)  *)
(* and recommendations (backward as-of LEFT join + select).  The dataflow  *)
(* engine advances in commits: every commit adds a batch of rows to the    *)
(* input tables and appends to each changelog the difference (diff = -1    *)
(* for a row that left the derived table, diff = +1 for a row that         *)
(* entered it) between the derived table before and after the commit.      *)
(*                                                                         *)
(* Units.  Floats are modelled by scaled integers:                         *)
(*   current            amperes                                            *)
(*   power              watts                                              *)
(*   electricity_price  1e-4 $/kWh   (0.15 $/kWh = 1500)                   *)
(*   cost_per_hour      1e-4 $/h     (round(x, 4) keeps four decimals)     *)
(*   carbon_intensity   gCO2/kWh                                           *)
(*   renewable_pct      percent                                            *)
(*   avg_current, avg_power   reduced fractions [num, den]                 *)
(*                                                                         *)
(* What the model takes from the dataflow library the code calls:          *)
(*   - groupby/reduce and asof_join are maintained incrementally over the  *)
(*     whole input tables; a derived row that changes is written as the    *)
(*     retraction of the old row followed by the insertion of the new one; *)
(*   - a derived row whose columns do not change is not written again;     *)
(*   - rows committed together are processed as one batch, and each        *)
(*     changelog receives the batch's net change.                          *)
(* The grid source's last_updated stamps are taken to grow from one        *)
(* context to the next.                                                    *)
(***************************************************************************)
EXTENDS Integers, Sequences, FiniteSets, TLC

VARIABLES
    devRows,          \* device_stream: rows read from DeviceConnector, in arrival order
    gridRows,         \* grid_stream: rows read from GridConnector, in arrival order
    groups,           \* reducer state of groupby(device_type): count, sums, max per type
    joined,           \* current output row of the as-of join for every device row
    anomalies,        \* pathway_output/anomalies.jsonl
    device_stats,     \* pathway_output/device_stats.jsonl
    recommendations,  \* pathway_output/recommendations.jsonl
    time,             \* number of commits processed by the engine so far
    internal,         \* internal_stream_generator: position, snapshot in hand, poll record
    external,         \* external_stream_generator: position, poll record
    deviceConnector,  \* rows DeviceConnector.next has handed over, not yet committed
    gridConnector,    \* rows GridConnector.next has handed over, not yet committed
    response          \* the last response of the routes that read the changelogs

vars == <<devRows, gridRows, groups, joined, anomalies, device_stats, recommendations, time,
          internal, external, deviceConnector, gridConnector, response>>

engineVars == <<devRows, gridRows, groups, joined, anomalies, device_stats, recommendations, time>>

adapterVars == <<internal, external, deviceConnector, gridConnector>>

(***************************************************************************)
(* Configuration (config.py) and the defaults of the join's coalesce.      *)
(***************************************************************************)
HIGH_CURRENT_THRESHOLD == 100

DEFAULT_CARBON_INTENSITY == 500

DEFAULT_CARBON_LEVEL == "MEDIUM"

DEFAULT_PRICING_TIER == "MEDIUM"

DEFAULT_RENEWABLE_PCT == 35

DEFAULT_ELECTRICITY_PRICE == 1500

HIGH_POWER_LIMIT == 500

HIGH_RENEWABLE_LIMIT == 70

(***************************************************************************)
(* Arithmetic helpers.                                                     *)
(***************************************************************************)
Abs(x) == IF x < 0 THEN -x ELSE x

Min(a, b) == IF a <= b THEN a ELSE b

RECURSIVE Gcd(_, _)
Gcd(a, b) == IF b = 0 THEN a ELSE Gcd(b, a % b)

\* Python's round()/format(): the quotient num/den (den > 0, num >= 0)
\* rounded to the nearest integer, ties to the even neighbour.
RoundHalfEven(num, den) ==
    LET q == num \div den
        r == num % den
    IN  IF 2 * r < den THEN q
        ELSE IF 2 * r > den THEN q + 1
        ELSE IF q % 2 = 0 THEN q ELSE q + 1

\* pw.reducers.avg: sum / count, kept as a fraction in lowest terms.
Avg(sum, count) ==
    LET g == Gcd(Abs(sum), count)
    IN  [num |-> sum \div g, den |-> count \div g]

\* pw.reducers.max over an existing group when one more value arrives.
Max(a, b) == IF a >= b THEN a ELSE b

(***************************************************************************)
(* utils.get_anomaly_alert.  The f-string embeds the current with one      *)
(* decimal ({current:.1f}); amps10 is that number in tenths of an ampere.  *)
(***************************************************************************)
\* get_anomaly_alert with the high-current test placed before the fault test.
get_anomaly_alert_current_first(current, status) ==
    IF status = "starting" /\ current > HIGH_CURRENT_THRESHOLD
    THEN [kind |-> "MOTOR INRUSH", amps10 |-> RoundHalfEven(current * 10, 1)]
    ELSE IF current > HIGH_CURRENT_THRESHOLD
    THEN [kind |-> "HIGH CURRENT", amps10 |-> RoundHalfEven(current * 10, 1)]
    ELSE IF status = "fault"
    THEN [kind |-> "FAULT DETECTED", amps10 |-> RoundHalfEven(current * 10, 1)]
    ELSE [kind |-> "ANOMALY", amps10 |-> RoundHalfEven(current * 10, 1)]

get_anomaly_alert(current, status) ==
    IF status = "starting" /\ current > HIGH_CURRENT_THRESHOLD
    THEN [kind |-> "MOTOR INRUSH", amps10 |-> RoundHalfEven(current * 10, 1)]
    ELSE IF status = "fault"
    THEN [kind |-> "FAULT DETECTED", amps10 |-> RoundHalfEven(current * 10, 1)]
    ELSE IF current > HIGH_CURRENT_THRESHOLD
    THEN [kind |-> "HIGH CURRENT", amps10 |-> RoundHalfEven(current * 10, 1)]
    ELSE [kind |-> "ANOMALY", amps10 |-> RoundHalfEven(current * 10, 1)]

(***************************************************************************)
(* utils.generate_llm_recommendation.  The result is the chosen template   *)
(* (framing) together with the numbers the f-string embeds:                *)
(*   price3   electricity_price with three decimals  (1e-3 $/kWh)          *)
(*   money2   savings / cost per hour with two decimals (1e-2 $/h)         *)
(*   carbon0  carbon_intensity with no decimals                            *)
(*   co2      carbon_per_hour = power/1000 * carbon_intensity, no decimals *)
(*   renew0   renewable_pct with no decimals                               *)
(* A number a template does not embed is -1.                               *)
(***************************************************************************)
Text(framing, device_id, price3, money2, carbon0, co2, renew0) ==
    [framing |-> framing, device_id |-> device_id, price3 |-> price3,
     money2 |-> money2, carbon0 |-> carbon0, co2 |-> co2, renew0 |-> renew0]

\* generate_llm_recommendation with the price-and-carbon rule placed first.
generate_llm_recommendation_combined_first(device_id, device_type, power, current, carbon_intensity, carbon_level, electricity_price, pricing_tier, renewable_pct, cost_per_hour) ==
    LET price3  == RoundHalfEven(electricity_price, 10)
        money2  == RoundHalfEven(cost_per_hour, 100)
        carbon0 == RoundHalfEven(carbon_intensity, 1)
        co2     == RoundHalfEven(power * carbon_intensity, 1000)
        renew0  == RoundHalfEven(renewable_pct, 1)
    IN  IF pricing_tier = "HIGH" /\ carbon_level = "HIGH"
        THEN Text("price_and_carbon", device_id, price3, money2, carbon0, co2, -1)
        ELSE IF pricing_tier = "HIGH" /\ power > HIGH_POWER_LIMIT
        THEN Text("stop_device", device_id, price3, money2, -1, -1, -1)
        ELSE IF carbon_level = "HIGH" /\ power > HIGH_POWER_LIMIT
        THEN Text("carbon_deferral", device_id, -1, -1, carbon0, co2, -1)
        ELSE IF pricing_tier = "LOW" /\ carbon_level = "LOW"
        THEN Text("optimal_time", device_id, price3, -1, -1, -1, renew0)
        ELSE IF renewable_pct > HIGH_RENEWABLE_LIMIT
        THEN Text("clean_energy", device_id, -1, -1, -1, -1, renew0)
        ELSE Text("normal_operation", device_id, price3, money2, -1, -1, -1)

generate_llm_recommendation(device_id, device_type, power, current, carbon_intensity, carbon_level, electricity_price, pricing_tier, renewable_pct, cost_per_hour) ==
    LET price3  == RoundHalfEven(electricity_price, 10)
        money2  == RoundHalfEven(cost_per_hour, 100)
        carbon0 == RoundHalfEven(carbon_intensity, 1)
        co2     == RoundHalfEven(power * carbon_intensity, 1000)
        renew0  == RoundHalfEven(renewable_pct, 1)
    IN  IF pricing_tier = "HIGH" /\ power > HIGH_POWER_LIMIT
        THEN Text("stop_device", device_id, price3, money2, -1, -1, -1)
        ELSE IF pricing_tier = "HIGH" /\ carbon_level = "HIGH"
        THEN Text("price_and_carbon", device_id, price3, money2, carbon0, co2, -1)
        ELSE IF carbon_level = "HIGH" /\ power > HIGH_POWER_LIMIT
        THEN Text("carbon_deferral", device_id, -1, -1, carbon0, co2, -1)
        ELSE IF pricing_tier = "LOW" /\ carbon_level = "LOW"
        THEN Text("optimal_time", device_id, price3, -1, -1, -1, renew0)
        ELSE IF renewable_pct > HIGH_RENEWABLE_LIMIT
        THEN Text("clean_energy", device_id, -1, -1, -1, -1, renew0)
        ELSE Text("normal_operation", device_id, price3, money2, -1, -1, -1)

(***************************************************************************)
(* Changelog entries as pw.io.jsonlines.write produces them: the row's     *)
(* columns, diff (+1 insertion, -1 retraction) and the commit's time.      *)
(***************************************************************************)
Entry(row, diff, t) == [row |-> row, diff |-> diff, time |-> t]

RECURSIVE Entries(_, _, _)
Entries(rows, diff, t) ==
    IF rows = <<>> THEN <<>>
    ELSE <<Entry(Head(rows), diff, t)>> \o Entries(Tail(rows), diff, t)

(***************************************************************************)
(* PathwayProcessor._detect_anomalies: filter(current > threshold) and     *)
(* select.  A stateless per-row map, so a commit's batch of device rows    *)
(* contributes the selected rows of that batch.                            *)
(***************************************************************************)
\* AnomalyFilter as current >= threshold would.
AnomalyFilterAtOrAbove(r) == r.current >= HIGH_CURRENT_THRESHOLD

\* AnomalyFilter as a filter whose threshold lies below the alert's would.
AnomalyFilterLowerThreshold(r) == r.current > HIGH_CURRENT_THRESHOLD - 25

AnomalyFilter(r) == r.current > HIGH_CURRENT_THRESHOLD

AnomalyRow(r) ==
    [device_id |-> r.device_id, device_type |-> r.device_type,
     current |-> r.current, power |-> r.power, status |-> r.status,
     alert |-> get_anomaly_alert(r.current, r.status),
     timestamp |-> r.timestamp]

RECURSIVE detect_anomalies(_)
detect_anomalies(batch) ==
    IF batch = <<>> THEN <<>>
    ELSE (IF AnomalyFilter(Head(batch)) THEN <<AnomalyRow(Head(batch))>> ELSE <<>>)
         \o detect_anomalies(Tail(batch))

(***************************************************************************)
(* PathwayProcessor._compute_statistics: groupby(device_type).reduce(avg,  *)
(* max, avg, count).  The engine keeps one accumulator per group and       *)
(* folds every arriving row into it; a group exists once its count > 0.    *)
(***************************************************************************)
DeviceTypes == {"hvac", "motor"}

TypeOrder == <<"hvac", "motor">>

EmptyGroup == [count |-> 0, sum_current |-> 0, sum_power |-> 0, max_current |-> 0]

\* Accumulate as a reducer that keeps only the latest row of a group would.
AccumulateLatestOnly(g, r) ==
    [count |-> g.count + 1,
     sum_current |-> r.current * (g.count + 1),
     sum_power |-> r.power * (g.count + 1),
     max_current |-> IF g.count = 0 THEN r.current ELSE Max(g.max_current, r.current)]

\* Accumulate as a reducer whose max column keeps the first current would.
AccumulateFirstAsMax(g, r) ==
    [count |-> g.count + 1,
     sum_current |-> g.sum_current + r.current,
     sum_power |-> g.sum_power + r.power,
     max_current |-> IF g.count = 0 THEN r.current ELSE g.max_current]

\* Accumulate as a reducer whose max column holds the latest current would.
AccumulateLastAsMax(g, r) ==
    [count |-> g.count + 1,
     sum_current |-> g.sum_current + r.current,
     sum_power |-> g.sum_power + r.power,
     max_current |-> r.current]

Accumulate(g, r) ==
    [count |-> g.count + 1,
     sum_current |-> g.sum_current + r.current,
     sum_power |-> g.sum_power + r.power,
     max_current |-> IF g.count = 0 THEN r.current ELSE Max(g.max_current, r.current)]

\* Reduce as an engine that folds only the first row of a commit would.
ReduceFirstOfBatch(gs, batch) ==
    IF batch = <<>> THEN gs
    ELSE LET r == Head(batch)
         IN  [gs EXCEPT ![r.device_type] = Accumulate(gs[r.device_type], r)]

RECURSIVE Reduce(_, _)
Reduce(gs, batch) ==
    IF batch = <<>> THEN gs
    ELSE LET r == Head(batch)
         IN  Reduce([gs EXCEPT ![r.device_type] = Accumulate(gs[r.device_type], r)],
                    Tail(batch))

StatsRow(type, g) ==
    [device_type |-> type,
     avg_current |-> Avg(g.sum_current, g.count),
     max_current |-> g.max_current,
     avg_power |-> Avg(g.sum_power, g.count),
     total_samples |-> g.count]

\* StatsDelta as a sink that never writes the retraction of a superseded row would.
RECURSIVE StatsDeltaInsertOnly(_, _, _, _)
StatsDeltaInsertOnly(types, old, new, t) ==
    IF types = <<>> THEN <<>>
    ELSE LET ty == Head(types)
             out == IF new[ty] = old[ty] THEN <<>>
                    ELSE <<Entry(StatsRow(ty, new[ty]), 1, t)>>
         IN  out \o StatsDeltaInsertOnly(Tail(types), old, new, t)

\* StatsDelta as a sink that writes a key's insertion before its retraction would.
RECURSIVE StatsDeltaInsertFirst(_, _, _, _)
StatsDeltaInsertFirst(types, old, new, t) ==
    IF types = <<>> THEN <<>>
    ELSE LET ty == Head(types)
             out == IF new[ty] = old[ty] THEN <<>>
                    ELSE <<Entry(StatsRow(ty, new[ty]), 1, t)>>
                         \o (IF old[ty].count > 0
                             THEN <<Entry(StatsRow(ty, old[ty]), -1, t)>> ELSE <<>>)
         IN  out \o StatsDeltaInsertFirst(Tail(types), old, new, t)

\* StatsDelta as a sink that rewrites every group at every commit would.
RECURSIVE StatsDeltaRewriteAll(_, _, _, _)
StatsDeltaRewriteAll(types, old, new, t) ==
    IF types = <<>> THEN <<>>
    ELSE LET ty == Head(types)
             out == IF new[ty].count = 0 THEN <<>>
                    ELSE (IF old[ty].count > 0
                          THEN <<Entry(StatsRow(ty, old[ty]), -1, t)>> ELSE <<>>)
                         \o <<Entry(StatsRow(ty, new[ty]), 1, t)>>
         IN  out \o StatsDeltaRewriteAll(Tail(types), old, new, t)

\* The difference of the device_stats table over one commit: for every group
\* the batch touched, the superseded row leaves and the new row enters.
RECURSIVE StatsDelta(_, _, _, _)
StatsDelta(types, old, new, t) ==
    IF types = <<>> THEN <<>>
    ELSE LET ty == Head(types)
             out == IF new[ty] = old[ty] THEN <<>>
                    ELSE (IF old[ty].count > 0
                          THEN <<Entry(StatsRow(ty, old[ty]), -1, t)>> ELSE <<>>)
                         \o <<Entry(StatsRow(ty, new[ty]), 1, t)>>
         IN  out \o StatsDelta(Tail(types), old, new, t)

(***************************************************************************)
(* PathwayProcessor._generate_recommendations: asof_join(how = LEFT,       *)
(* direction = BACKWARD) on the two timestamps, then select with coalesce. *)
(* The match of a device row is the grid row with the greatest timestamp   *)
(* not after the device row's; `right` is the set holding that row, empty  *)
(* when there is none (the LEFT join then yields nulls).                   *)
(***************************************************************************)
\* AsofMatch as a join that keeps only the last grid row received would.
AsofMatchLatestKnown(ts, grids) ==
    IF grids = <<>> THEN {} ELSE {grids[Len(grids)]}

\* AsofMatch as a backward join without exact matches would.
AsofMatchStrictlyBefore(ts, grids) ==
    {g \in {grids[i] : i \in 1..Len(grids)} :
        /\ g.timestamp < ts
        /\ \A i \in 1..Len(grids) :
              grids[i].timestamp < ts => grids[i].timestamp <= g.timestamp}

\* AsofMatch as direction = FORWARD would.
AsofMatchForward(ts, grids) ==
    {g \in {grids[i] : i \in 1..Len(grids)} :
        /\ g.timestamp >= ts
        /\ \A i \in 1..Len(grids) :
              grids[i].timestamp >= ts => grids[i].timestamp >= g.timestamp}

AsofMatch(ts, grids) ==
    {g \in {grids[i] : i \in 1..Len(grids)} :
        /\ g.timestamp <= ts
        /\ \A i \in 1..Len(grids) :
              grids[i].timestamp <= ts => grids[i].timestamp <= g.timestamp}

coalesce(right, column, default) ==
    IF right = {} THEN default ELSE (CHOOSE g \in right : TRUE)[column]

\* CostPerHour as round(p / 1000 * price, 2) would.
CostPerHourTwoDecimals(power, price) == RoundHalfEven(power * price, 100000) * 100

\* lambda p, price: round(p / 1000 * price, 4)
CostPerHour(power, price) == RoundHalfEven(power * price, 1000)

combined(d, right) ==
    LET carbon_intensity  == coalesce(right, "carbon_intensity", DEFAULT_CARBON_INTENSITY)
        carbon_level      == coalesce(right, "carbon_level", DEFAULT_CARBON_LEVEL)
        pricing_tier      == coalesce(right, "pricing_tier", DEFAULT_PRICING_TIER)
        renewable_pct     == coalesce(right, "renewable_pct", DEFAULT_RENEWABLE_PCT)
        electricity_price == coalesce(right, "electricity_price", DEFAULT_ELECTRICITY_PRICE)
        cost_per_hour     == CostPerHour(d.power, electricity_price)
    IN  [device_id |-> d.device_id, device_type |-> d.device_type,
         current |-> d.current, power |-> d.power,
         carbon_intensity |-> carbon_intensity, carbon_level |-> carbon_level,
         pricing_tier |-> pricing_tier, renewable_pct |-> renewable_pct,
         electricity_price |-> electricity_price, cost_per_hour |-> cost_per_hour,
         recommendation |->
             generate_llm_recommendation(d.device_id, d.device_type, d.power, d.current,
                 carbon_intensity, carbon_level, electricity_price, pricing_tier,
                 renewable_pct, cost_per_hour),
         timestamp |-> d.timestamp]

generate_recommendations(devs, grids) ==
    [k \in 1..Len(devs) |-> combined(devs[k], AsofMatch(devs[k].timestamp, grids))]

\* RecDelta as a sink that never writes a retraction would.
RECURSIVE RecDeltaInsertOnly(_, _, _, _)
RecDeltaInsertOnly(k, old, new, t) ==
    IF k > Len(new) THEN <<>>
    ELSE LET out == IF k > Len(old) THEN <<Entry(new[k], 1, t)>>
                    ELSE IF old[k] = new[k] THEN <<>>
                    ELSE <<Entry(new[k], 1, t)>>
         IN  out \o RecDeltaInsertOnly(k + 1, old, new, t)

\* The difference of the recommendations table over one commit: a device
\* row whose joined row changed has the old row retracted and the new one
\* inserted; a device row of this commit has its joined row inserted.
RecDeltaAt(k, old, new, t) ==
    IF k > Len(old) THEN <<Entry(new[k], 1, t)>>
    ELSE IF old[k] = new[k] THEN <<>>
    ELSE <<Entry(old[k], -1, t), Entry(new[k], 1, t)>>

\* The entries of the device rows lo..hi, in the order of the rows.
RECURSIVE RecDeltaRange(_, _, _, _, _)
RecDeltaRange(lo, hi, old, new, t) ==
    IF lo > hi THEN <<>>
    ELSE IF lo = hi THEN RecDeltaAt(lo, old, new, t)
    ELSE LET mid == (lo + hi) \div 2
         IN  RecDeltaRange(lo, mid, old, new, t) \o RecDeltaRange(mid + 1, hi, old, new, t)

RecDelta(k, old, new, t) == RecDeltaRange(k, Len(new), old, new, t)

(***************************************************************************)
(* One commit of the engine (pw.run): the batch read from the two          *)
(* connectors enters the input tables and every derived table's change     *)
(* is appended to its file.                                                *)
(***************************************************************************)
Commit(devBatch, gridBatch) ==
    /\ time' = time + 1
    /\ devRows' = devRows \o devBatch
    /\ gridRows' = gridRows \o gridBatch
    /\ anomalies' = anomalies \o Entries(detect_anomalies(devBatch), 1, time')
    /\ groups' = Reduce(groups, devBatch)
    /\ device_stats' = device_stats \o StatsDelta(TypeOrder, groups, groups', time')
    /\ joined' = generate_recommendations(devRows', gridRows')
    /\ recommendations' = recommendations \o RecDelta(1, joined, joined', time')

\* A field the payload does not carry, or carries with a value float() rejects.
NoValue == -1

\* A snapshot as fetch_internal_stream returns it.
Snapshot(ts, devices) == [timestamp |-> ts, devices |-> devices]

Init ==
    /\ devRows = <<>>
    /\ gridRows = <<>>
    /\ groups = [ty \in DeviceTypes |-> EmptyGroup]
    /\ joined = <<>>
    /\ anomalies = <<>>
    /\ device_stats = <<>>
    /\ recommendations = <<>>
    /\ time = 0
    /\ internal = [pc |-> "fetch", polls |-> 0, failures |-> 0, timestamp |-> NoValue,
                   devices |-> <<>>, fetched |-> Snapshot(NoValue, <<>>),
                   yielded |-> <<>>]
    /\ external = [pc |-> "fetch", polls |-> 0, failures |-> 0, yielded |-> <<>>]
    /\ deviceConnector = <<>>
    /\ gridConnector = <<>>
    /\ response = [endpoint |-> "none", limit |-> 0, body |-> <<>>]

(***************************************************************************)
(* Inputs.  A device row is what internal_stream_generator yields for one  *)
(* entry of a fetched snapshot, a grid row what external_stream_generator  *)
(* yields for one fetched context.                                         *)
(***************************************************************************)
DeviceTypeOf(id) == IF id = "hvac_1" THEN "hvac" ELSE "motor"

DeviceRow(id, status, current, power, ts) ==
    [device_id |-> id, device_type |-> DeviceTypeOf(id), status |-> status,
     voltage |-> 230, current |-> current, power |-> power, timestamp |-> ts]

DeviceRowSet(ids, statuses, currents, powers, stamps) ==
    {DeviceRow(id, st, c, p, ts) :
        id \in ids, st \in statuses, c \in currents, p \in powers, ts \in stamps}

\* The price and the carbon intensity the source reports in each tier/level.
PriceOf(tier) == IF tier = "HIGH" THEN 2725 ELSE IF tier = "LOW" THEN 800 ELSE 1500

IntensityOf(level) == IF level = "HIGH" THEN 700 ELSE IF level = "LOW" THEN 200 ELSE 500

GridRow(level, tier, renewable, ts) ==
    [carbon_intensity |-> IntensityOf(level), carbon_level |-> level,
     electricity_price |-> PriceOf(tier), pricing_tier |-> tier,
     renewable_pct |-> renewable, timestamp |-> ts]

GridRowSet(levels, tiers, renewables, stamps) ==
    {GridRow(l, t, r, ts) : l \in levels, t \in tiers, r \in renewables, ts \in stamps}

\* Bounds of the explored runs.
MaxBatch == 2

MaxDev == 2

MaxGrid == 2

MaxDevAgg == 3

MaxGridAgg == 1

MaxDevAnom == 2

MaxGridAnom == 1

MaxDevRec == 2

MaxGridRec == 1

\* The non-empty batches of at most n rows drawn from D.
Batches(D, n) == UNION {[1..m -> D] : m \in 1..n}

\* The grid source stamps every context with last_updated, which grows from
\* one context to the next.
LaterThanKnown(g) == \A i \in 1..Len(gridRows) : gridRows[i].timestamp < g.timestamp

(***************************************************************************)
(* The engine's steps.  P gives the rows the sources may deliver and how   *)
(* many of them a run takes: a commit holds rows of the device connector,  *)
(* of the grid connector, or of both.  These steps take the rows straight  *)
(* from the sources; SpecAdapters below puts the two polling generators    *)
(* and the connectors in between.                                          *)
(***************************************************************************)
DeviceCommit(P) ==
    /\ Len(devRows) < P.maxDev
    /\ \E b \in Batches(P.devices, Min(MaxBatch, P.maxDev - Len(devRows))) :
          Commit(b, <<>>)
    /\ UNCHANGED <<adapterVars, response>>

GridCommit(P) ==
    /\ Len(gridRows) < P.maxGrid
    /\ \E g \in P.grids : LaterThanKnown(g) /\ Commit(<<>>, <<g>>)
    /\ UNCHANGED <<adapterVars, response>>

MixedCommit(P) ==
    /\ Len(devRows) < P.maxDev
    /\ Len(gridRows) < P.maxGrid
    /\ \E b \in Batches(P.devices, Min(MaxBatch, P.maxDev - Len(devRows))) :
          \E g \in P.grids : LaterThanKnown(g) /\ Commit(b, <<g>>)
    /\ UNCHANGED <<adapterVars, response>>

(***************************************************************************)
(* Spec: one device whose rows differ in current, power and timestamp,     *)
(* and grid contexts stamped before, at and after the device timestamps.   *)
(***************************************************************************)
JoinInputs ==
    [devices |-> DeviceRowSet({"motor_1"}, {"running"}, {80, 120}, {500, 800}, {10, 15}),
     grids   |-> GridRowSet({"HIGH"}, {"HIGH"}, {20}, {10})
                 \cup GridRowSet({"LOW"}, {"LOW"}, {80}, {15, 20}),
     maxDev  |-> MaxDev,
     maxGrid |-> MaxGrid]

Next ==
    \/ DeviceCommit(JoinInputs)
    \/ GridCommit(JoinInputs)
    \/ MixedCommit(JoinInputs)

Spec == Init /\ [][Next]_vars

(***************************************************************************)
(* SpecAgg: two device types whose rows differ in current and power.       *)
(***************************************************************************)
AggInputs ==
    [devices |-> DeviceRowSet({"hvac_1", "motor_1"}, {"running"}, {80, 120}, {500, 800}, {15}),
     grids   |-> GridRowSet({"HIGH"}, {"HIGH"}, {20}, {10}),
     maxDev  |-> MaxDevAgg,
     maxGrid |-> MaxGridAgg]

NextAgg ==
    \/ DeviceCommit(AggInputs)
    \/ GridCommit(AggInputs)
    \/ MixedCommit(AggInputs)

SpecAgg == Init /\ [][NextAgg]_vars

(***************************************************************************)
(* SpecAnomaly: every status with a current below, at and above the        *)
(* threshold.                                                              *)
(***************************************************************************)
AnomalyInputs ==
    [devices |-> DeviceRowSet({"motor_1"}, {"off", "starting", "running", "fault"},
                              {80, 100, 120}, {800}, {15}),
     grids   |-> GridRowSet({"HIGH"}, {"HIGH"}, {20}, {10}),
     maxDev  |-> MaxDevAnom,
     maxGrid |-> MaxGridAnom]

NextAnomaly ==
    \/ DeviceCommit(AnomalyInputs)
    \/ GridCommit(AnomalyInputs)
    \/ MixedCommit(AnomalyInputs)

SpecAnomaly == Init /\ [][NextAnomaly]_vars

(***************************************************************************)
(* SpecRec: every combination of pricing tier, carbon level, renewable     *)
(* share around 70 % and power around 500 W.                               *)
(***************************************************************************)
RecInputs ==
    [devices |-> DeviceRowSet({"motor_1"}, {"running"}, {80}, {500, 600}, {15}),
     grids   |-> GridRowSet({"LOW", "MEDIUM", "HIGH"}, {"LOW", "MEDIUM", "HIGH"},
                            {35, 80}, {10}),
     maxDev  |-> MaxDevRec,
     maxGrid |-> MaxGridRec]

NextRec ==
    \/ DeviceCommit(RecInputs)
    \/ GridCommit(RecInputs)
    \/ MixedCommit(RecInputs)

SpecRec == Init /\ [][NextRec]_vars

(***************************************************************************)
(* The two polling generators (utils.py) and the connectors that drain     *)
(* them (processor.py).  A generator is a loop: fetch, yield the rows of   *)
(* what was fetched, sleep; `except Exception` around fetch and yield      *)
(* sends every failure to the sleep.  A connector hands each yielded row   *)
(* to the engine, which takes the rows handed over at its next commit.     *)
(*   pc        where the generator stands: "fetch" before its first poll,  *)
(*             "yield" inside the for loop, "sleep" in time.sleep; the     *)
(*             step that fetches is also the one that ends the sleep       *)
(*   polls     polls started so far                                        *)
(*   failures  polls that ended in the except branch so far                *)
(*   fetched   the snapshot the latest poll fetched (none: no entries)     *)
(*   yielded   the rows the current poll has yielded                       *)
(* fetched and yielded are the record of the latest poll.                  *)
(***************************************************************************)
MaxPolls == 3

MaxGridPolls == 2

\* The stamp the device source puts on its k-th answer, the adapter's own
\* clock (time.time()) at that poll, and the grid source's last_updated.
SourceTime(k) == 10 + 5 * k

WallClock(k) == SourceTime(k) + 1

GridSourceTime(k) == 10 * k

\* One entry of data['devices']: timestamp is the entry's own stamp if it
\* carries one, current is NoValue when the field is missing or not a number.
Telemetry(id, current, own) ==
    [device_id |-> id, device_type |-> DeviceTypeOf(id), status |-> "running",
     voltage |-> 230, current |-> current, power |-> 800, timestamp |-> own]

Plain(id) == Telemetry(id, 120, NoValue)

Stamped(id, k) == Telemetry(id, 120, SourceTime(k) - 3)

Uncoercible(id) == Telemetry(id, NoValue, NoValue)

\* float(telemetry[...]) succeeds on every required numeric field.
Coercible(telemetry) ==
    /\ telemetry.voltage # NoValue
    /\ telemetry.current # NoValue
    /\ telemetry.power # NoValue

\* YieldedRow as an adapter that prefers the entry's own timestamp would.
YieldedRowOwnTimestamp(telemetry, timestamp) ==
    [device_id |-> telemetry.device_id, device_type |-> telemetry.device_type,
     status |-> telemetry.status, voltage |-> telemetry.voltage,
     current |-> telemetry.current, power |-> telemetry.power,
     timestamp |-> IF telemetry.timestamp # NoValue THEN telemetry.timestamp ELSE timestamp]

\* The dict internal_stream_generator yields for one entry.
YieldedRow(telemetry, timestamp) ==
    [device_id |-> telemetry.device_id, device_type |-> telemetry.device_type,
     status |-> telemetry.status, voltage |-> telemetry.voltage,
     current |-> telemetry.current, power |-> telemetry.power,
     timestamp |-> timestamp]

\* AfterException as a generator that lets the exception escape would.
AfterExceptionStops(g) == [g EXCEPT !.pc = "stopped", !.failures = @ + 1]

\* except Exception: print(...), then fall through to the sleep.
AfterException(g) == [g EXCEPT !.pc = "sleep", !.failures = @ + 1]

\* S[k] holds the snapshots the k-th poll may fetch.
InternalFetch(S) ==
    /\ internal.pc \in {"fetch", "sleep"}
    /\ internal.polls < MaxPolls
    /\ \E data \in S[internal.polls + 1] :
          internal' = [internal EXCEPT
                          !.pc = "yield",
                          !.polls = @ + 1,
                          !.timestamp = IF data.timestamp = NoValue
                                        THEN WallClock(internal.polls + 1)
                                        ELSE data.timestamp,
                          !.devices = data.devices,
                          !.fetched = data,
                          !.yielded = <<>>]
    /\ UNCHANGED <<engineVars, external, deviceConnector, gridConnector, response>>

\* fetch_internal_stream raises: network error, timeout, raise_for_status,
\* or a body that is not JSON.
InternalFetchFails ==
    /\ internal.pc \in {"fetch", "sleep"}
    /\ internal.polls < MaxPolls
    /\ internal' = AfterException([internal EXCEPT !.polls = @ + 1, !.devices = <<>>,
                                                   !.fetched = Snapshot(NoValue, <<>>),
                                                   !.yielded = <<>>])
    /\ UNCHANGED <<engineVars, external, deviceConnector, gridConnector, response>>

\* One turn of the for loop over data['devices'].items(); the loop stands
\* inside the try, so the first entry that cannot be coerced ends it.
InternalYield ==
    /\ internal.pc = "yield"
    /\ IF internal.devices = <<>>
       THEN /\ internal' = [internal EXCEPT !.pc = "sleep"]
            /\ UNCHANGED deviceConnector
       ELSE IF Coercible(Head(internal.devices))
       THEN LET row == YieldedRow(Head(internal.devices), internal.timestamp)
            IN  /\ internal' = [internal EXCEPT !.devices = Tail(@),
                                                !.yielded = Append(@, row)]
                /\ deviceConnector' = Append(deviceConnector, row)
       ELSE /\ internal' = AfterException([internal EXCEPT !.devices = <<>>])
            /\ UNCHANGED deviceConnector
    /\ UNCHANGED <<engineVars, external, gridConnector, response>>

\* The contexts the k-th successful fetch may return: complete, or with a
\* required field missing.
Context(intensity, k) ==
    [carbon_intensity |-> intensity, carbon_level |-> "HIGH",
     electricity_price |-> PriceOf("HIGH"), pricing_tier |-> "HIGH",
     grid_renewable_percentage |-> 20, last_updated |-> GridSourceTime(k)]

ContextInputs(k) == {Context(IntensityOf("HIGH"), k), Context(NoValue, k)}

ContextRow(data) ==
    [carbon_intensity |-> data.carbon_intensity, carbon_level |-> data.carbon_level,
     electricity_price |-> data.electricity_price, pricing_tier |-> data.pricing_tier,
     renewable_pct |-> data.grid_renewable_percentage, timestamp |-> data.last_updated]

ExternalPoll ==
    /\ external.pc \in {"fetch", "sleep"}
    /\ external.polls < MaxGridPolls
    /\ \E data \in ContextInputs(external.polls + 1) :
          IF data.carbon_intensity # NoValue
          THEN /\ external' = [external EXCEPT !.pc = "sleep", !.polls = @ + 1,
                                               !.yielded = <<ContextRow(data)>>]
               /\ gridConnector' = Append(gridConnector, ContextRow(data))
          ELSE /\ external' = AfterException([external EXCEPT !.polls = @ + 1,
                                                              !.yielded = <<>>])
               /\ UNCHANGED gridConnector
    /\ UNCHANGED <<engineVars, internal, deviceConnector, response>>

ExternalFetchFails ==
    /\ external.pc \in {"fetch", "sleep"}
    /\ external.polls < MaxGridPolls
    /\ external' = AfterException([external EXCEPT !.polls = @ + 1, !.yielded = <<>>])
    /\ UNCHANGED <<engineVars, internal, deviceConnector, gridConnector, response>>

\* The engine's commit takes what a connector has handed over: the device
\* connector's rows, the grid connector's, or both.
DeviceAutocommit ==
    /\ deviceConnector # <<>>
    /\ Commit(deviceConnector, <<>>)
    /\ deviceConnector' = <<>>
    /\ UNCHANGED <<internal, external, gridConnector, response>>

GridAutocommit ==
    /\ gridConnector # <<>>
    /\ Commit(<<>>, gridConnector)
    /\ gridConnector' = <<>>
    /\ UNCHANGED <<internal, external, deviceConnector, response>>

JointAutocommit ==
    /\ deviceConnector # <<>>
    /\ gridConnector # <<>>
    /\ Commit(deviceConnector, gridConnector)
    /\ deviceConnector' = <<>>
    /\ gridConnector' = <<>>
    /\ UNCHANGED <<internal, external, response>>

(***************************************************************************)
(* SpecAdapters: both generators and the engine; a device poll fails in    *)
(* the fetch, fetches an entry that cannot be coerced, or fetches one good *)
(* entry; a grid poll fails in the fetch, fetches a context with a field   *)
(* missing, or fetches a complete context.                                 *)
(***************************************************************************)
PollInputs ==
    [k \in 1..MaxPolls |->
        {Snapshot(SourceTime(k), <<Plain("motor_1")>>),
         Snapshot(SourceTime(k), <<Uncoercible("motor_1")>>)}]

NextAdapters ==
    \/ InternalFetch(PollInputs)
    \/ InternalFetchFails
    \/ InternalYield
    \/ ExternalPoll
    \/ ExternalFetchFails
    \/ DeviceAutocommit
    \/ GridAutocommit
    \/ JointAutocommit

SpecAdapters == Init /\ [][NextAdapters]_vars

\* Each generator runs in the thread of its connector: a fetch returns or
\* times out (REQUEST_TIMEOUT), time.sleep returns, so a generator that can
\* take a step takes it.
SpecAdaptersFair ==
    /\ SpecAdapters
    /\ WF_vars(InternalFetch(PollInputs) \/ InternalFetchFails)
    /\ WF_vars(InternalYield)
    /\ WF_vars(ExternalPoll \/ ExternalFetchFails)

(***************************************************************************)
(* SpecSnapshots: the device generator and the engine; the snapshots hold  *)
(* no entry, two good entries of which one has a stamp of its own (in a    *)
(* snapshot with and without timestamp), or a bad entry before or after a  *)
(* good one.                                                               *)
(***************************************************************************)
SnapshotInputs ==
    [k \in 1..MaxPolls |->
        {Snapshot(SourceTime(k), <<>>),
         Snapshot(SourceTime(k), <<Plain("motor_1"), Stamped("motor_2", k)>>),
         Snapshot(NoValue, <<Stamped("motor_1", k), Plain("motor_2")>>),
         Snapshot(SourceTime(k), <<Uncoercible("motor_1"), Plain("motor_2")>>),
         Snapshot(SourceTime(k), <<Plain("motor_1"), Uncoercible("motor_2")>>)}]

NextSnapshots ==
    \/ InternalFetch(SnapshotInputs)
    \/ InternalFetchFails
    \/ InternalYield
    \/ DeviceAutocommit

SpecSnapshots == Init /\ [][NextSnapshots]_vars

(***************************************************************************)
(* The routes that read the changelogs (routes/pathway_routes.py).  A      *)
(* changelog file is the sequence of its lines; every line the engine      *)
(* writes parses, and carries its diff.                                    *)
(***************************************************************************)
\* max_lines of the call in get_device_statistics.
STATS_MAX_LINES == 100

\* lines[start:] as Python slices a list: a negative start counts from the
\* end, and a start beyond either end is clamped.
PySliceFrom(lines, start) ==
    LET n    == Len(lines)
        from == IF start < 0 THEN Max(n + start, 0) ELSE Min(start, n)
    IN  SubSeq(lines, from + 1, n)

read_latest_jsonl(lines, max_lines) ==
    LET recent_lines == IF Len(lines) > max_lines
                        THEN PySliceFrom(lines, -max_lines)
                        ELSE lines
    IN  SelectSeq(recent_lines, LAMBDA data : data.diff > 0)

\* latest_stats[device_type] = entry, for every entry in turn: a dict keeps
\* its keys in the order they were first set and, for each key, the value
\* set last.
LatestStats(stats) ==
    LET TypeAt(i) == stats[i].row.device_type
        first     == {i \in 1..Len(stats) : \A j \in 1..(i - 1) : TypeAt(j) # TypeAt(i)}
        Last(i)   == CHOOSE j \in 1..Len(stats) :
                        /\ TypeAt(j) = TypeAt(i)
                        /\ \A k \in (j + 1)..Len(stats) : TypeAt(k) # TypeAt(i)
        Nth(n)    == CHOOSE i \in first : Cardinality({j \in first : j <= i}) = n
    IN  [n \in 1..Cardinality(first) |-> stats[Last(Nth(n))]]

get_device_statistics(lines) == LatestStats(read_latest_jsonl(lines, STATS_MAX_LINES))

GetAnomalies(limit) ==
    /\ response' = [endpoint |-> "anomalies", limit |-> limit,
                    body |-> read_latest_jsonl(anomalies, limit)]
    /\ UNCHANGED <<engineVars, adapterVars>>

GetStatistics ==
    /\ response' = [endpoint |-> "statistics", limit |-> STATS_MAX_LINES,
                    body |-> get_device_statistics(device_stats)]
    /\ UNCHANGED <<engineVars, adapterVars>>

GetRecommendations(limit) ==
    /\ response' = [endpoint |-> "recommendations", limit |-> limit,
                    body |-> read_latest_jsonl(recommendations, limit)]
    /\ UNCHANGED <<engineVars, adapterVars>>

(***************************************************************************)
(* SpecRead: the engine commits rows, then the routes are called with      *)
(* every limit from below zero to above the length of the files.  The      *)
(* runs explored are those in which the commits come before the calls.     *)
(***************************************************************************)
MaxDevRead == 3

MaxGridRead == 1

ReadInputs ==
    [devices |-> DeviceRowSet({"motor_1"}, {"running"}, {80, 120}, {800}, {15}),
     grids   |-> GridRowSet({"HIGH"}, {"HIGH"}, {20}, {10}),
     maxDev  |-> MaxDevRead,
     maxGrid |-> MaxGridRead]

LimitInputs == (0 - 2)..(2 * MaxDevRead + 1)

NoCallYet == response.endpoint = "none"

NextRead ==
    \/ NoCallYet /\ DeviceCommit(ReadInputs)
    \/ NoCallYet /\ GridCommit(ReadInputs)
    \/ NoCallYet /\ MixedCommit(ReadInputs)
    \/ \E limit \in LimitInputs : GetAnomalies(limit)
    \/ \E limit \in LimitInputs : GetRecommendations(limit)
    \/ GetStatistics

SpecRead == Init /\ [][NextRead]_vars

(***************************************************************************)
(* SpecTail: a long run in which every poll is committed on its own; the   *)
(* one hvac device reports until the motor device reports, then only the   *)
(* motor does.  The statistics route is called after the commits.          *)
(***************************************************************************)
MaxDevTail == 52

TailInputs ==
    [devices |-> IF \E i \in 1..Len(devRows) : devRows[i].device_type = "motor"
                 THEN DeviceRowSet({"motor_1"}, {"running"}, {80}, {800}, {15})
                 ELSE DeviceRowSet({"hvac_1", "motor_1"}, {"running"}, {80}, {800}, {15}),
     maxDev  |-> MaxDevTail]

\* A commit that holds the one row of one poll.
PollCommit(P) ==
    /\ Len(devRows) < P.maxDev
    /\ \E r \in P.devices : Commit(<<r>>, <<>>)
    /\ UNCHANGED <<adapterVars, response>>

NextTail ==
    \/ NoCallYet /\ PollCommit(TailInputs)
    \/ GetStatistics

SpecTail == Init /\ [][NextTail]_vars

(***************************************************************************)
(* Reading a changelog back: the net diff of the entries that satisfy a    *)
(* test among the first n entries, and the rows that are live.             *)
(***************************************************************************)
LogRows(log) == {log[i].row : i \in 1..Len(log)}

\* The sum of diff over the entries, among the first n, whose row is in R.
NetDiff(log, n, R) ==
    Cardinality({i \in 1..n : log[i].diff = 1 /\ log[i].row \in R})
    - Cardinality({i \in 1..n : log[i].diff = -1 /\ log[i].row \in R})

LiveRows(log) == {r \in LogRows(log) : NetDiff(log, Len(log), {r}) > 0}

StatsOfType(ty) == {r \in LogRows(device_stats) : r.device_type = ty}

RowsOfType(ty) == SelectSeq(devRows, LAMBDA r : r.device_type = ty)

RECURSIVE SumCurrent(_)
SumCurrent(rows) == IF rows = <<>> THEN 0 ELSE Head(rows).current + SumCurrent(Tail(rows))

RECURSIVE SumPower(_)
SumPower(rows) == IF rows = <<>> THEN 0 ELSE Head(rows).power + SumPower(Tail(rows))

\* avg is the mean of n values whose sum is sum.
IsMean(avg, sum, n) == avg.den > 0 /\ avg.num * n = avg.den * sum

\* m is the greatest current among rows.
IsMaxCurrent(m, rows) ==
    /\ \E i \in 1..Len(rows) : rows[i].current = m
    /\ \A i \in 1..Len(rows) : rows[i].current <= m

(***************************************************************************)
(* C1.  Once N >= 1 rows of a device type have been ingested, whatever     *)
(* rows of other types and grid rows came between them, the one live       *)
(* device_stats row of that type has avg_current and avg_power equal to    *)
(* the arithmetic means of the N currents and powers, max_current equal    *)
(* to their maximum and total_samples equal to N.                          *)
(***************************************************************************)
C1_RunningAggregate ==
    \A ty \in DeviceTypes :
        LET rows == RowsOfType(ty)
            N    == Len(rows)
            live == {r \in LiveRows(device_stats) : r.device_type = ty}
        IN  N >= 1 =>
              /\ Cardinality(live) = 1
              /\ \A r \in live :
                    /\ IsMean(r.avg_current, SumCurrent(rows), N)
                    /\ IsMean(r.avg_power, SumPower(rows), N)
                    /\ IsMaxCurrent(r.max_current, rows)
                    /\ r.total_samples = N

\* Two rows of one type with different currents and powers, a row of the
\* other type and a grid row between them.
C1_Witness ==
    /\ Len(devRows) = 3
    /\ Len(gridRows) = 1
    /\ devRows[1].device_type = "motor"
    /\ devRows[2].device_type = "hvac"
    /\ devRows[3].device_type = "motor"
    /\ devRows[1].current > devRows[3].current
    /\ devRows[1].power < devRows[3].power
    /\ time = 4
    /\ \E r \in LiveRows(device_stats) :
          r.device_type = "motor" /\ r.total_samples = 2 /\ r.avg_current = [num |-> 100, den |-> 1]

DeviceFields(r) == <<r.device_id, r.device_type, r.current, r.power, r.timestamp>>

GridFields(r) ==
    <<r.carbon_intensity, r.carbon_level, r.electricity_price, r.pricing_tier, r.renewable_pct>>

DefaultGridFields == <<500, "MEDIUM", 1500, "MEDIUM", 35>>

\* The entries a step appends to the recommendations changelog.
Appended == SubSeq(recommendations', Len(recommendations) + 1, Len(recommendations'))

\* The step is a commit that holds a grid row / only a grid row / only device rows.
HoldsGridRow == Len(gridRows') = Len(gridRows) + 1

GridRowOnly == HoldsGridRow /\ devRows' = devRows

DeviceRowsOnly == gridRows' = gridRows /\ devRows' # devRows

NewGridRow == gridRows'[Len(gridRows')]

(***************************************************************************)
(* C3 as stated.  Every entry of the anomalies changelog and of the        *)
(* recommendations changelog has diff = +1.                                *)
(***************************************************************************)
C3_Original_NeverRetracted ==
    /\ \A i \in 1..Len(anomalies) : anomalies[i].diff = 1
    /\ \A i \in 1..Len(recommendations) : recommendations[i].diff = 1

(***************************************************************************)
(* C3 as amended.  Every entry of the anomalies changelog has diff = +1.   *)
(* A recommendations entry has diff = -1 only in a commit that holds a     *)
(* GridRow: it retracts the live row of an already joined DeviceRow whose  *)
(* timestamp is later than or equal to the GridRow's, and the same commit  *)
(* inserts that DeviceRow re-joined with the GridRow.                      *)
(***************************************************************************)
C3_RetractOnlyOnGridRow ==
    [][ /\ \A i \in 1..Len(anomalies') : anomalies'[i].diff = 1
        /\ \A i \in 1..Len(Appended) :
              Appended[i].diff = -1 =>
                /\ HoldsGridRow
                /\ Appended[i].row \in LiveRows(recommendations)
                /\ Appended[i].row.timestamp >= NewGridRow.timestamp
                /\ \E j \in 1..Len(Appended) :
                      /\ Appended[j].diff = 1
                      /\ Appended[j].time = Appended[i].time
                      /\ DeviceFields(Appended[j].row) = DeviceFields(Appended[i].row)
                      /\ GridFields(Appended[j].row) = GridFields(NewGridRow)
      ]_vars

\* An anomaly was written, and the row of a device row joined with the
\* defaults was retracted when a grid row with an earlier timestamp arrived.
C3_Witness ==
    /\ Len(anomalies) >= 1
    /\ \E i \in 1..Len(recommendations) :
          /\ recommendations[i].diff = -1
          /\ GridFields(recommendations[i].row) = DefaultGridFields
          /\ \E j \in 1..Len(gridRows) :
                gridRows[j].timestamp < recommendations[i].row.timestamp

(***************************************************************************)
(* C4 as stated.  A DeviceRow is joined against the GridRow received last  *)
(* before it, however the timestamps compare: the rows a device-only       *)
(* commit inserts carry the fields of the last GridRow received, and the   *)
(* defaults only when none was received.                                   *)
(***************************************************************************)
C4_Original_LastReceivedWins ==
    [][ DeviceRowsOnly =>
          \A i \in 1..Len(Appended) :
              Appended[i].diff = 1 =>
                GridFields(Appended[i].row) =
                    IF gridRows = <<>> THEN DefaultGridFields
                    ELSE GridFields(gridRows[Len(gridRows)])
      ]_vars

\* r carries the grid columns of the backward as-of match of device row d.
IsAsOfJoin(r, d) ==
    LET known == {i \in 1..Len(gridRows) : gridRows[i].timestamp <= d.timestamp}
    IN  IF known = {} THEN GridFields(r) = DefaultGridFields
        ELSE \E i \in known :
                /\ \A j \in known : gridRows[j].timestamp <= gridRows[i].timestamp
                /\ GridFields(r) = GridFields(gridRows[i])

(***************************************************************************)
(* C4 as amended.  Each DeviceRow is joined against the received GridRow   *)
(* with the greatest timestamp not later than the DeviceRow's own          *)
(* timestamp, whether that GridRow was received before or after it: given  *)
(* GridRow@10 then GridRow@20, a DeviceRow@15 carries the fields of the    *)
(* t=10 row; when every GridRow received has a later timestamp than the    *)
(* DeviceRow, the defaults are used.                                       *)
(***************************************************************************)
C4_BackwardAsOfJoin ==
    /\ \A k \in 1..Len(devRows) :
          \E r \in LiveRows(recommendations) :
              DeviceFields(r) = DeviceFields(devRows[k]) /\ IsAsOfJoin(r, devRows[k])
    /\ \A r \in LiveRows(recommendations) :
          \E k \in 1..Len(devRows) :
              DeviceFields(r) = DeviceFields(devRows[k]) /\ IsAsOfJoin(r, devRows[k])

\* GridRow@10 then GridRow@20 were received, then one DeviceRow@15, whose
\* row carries the fields of the t=10 grid row.
C4_Witness ==
    /\ Len(gridRows) = 2
    /\ gridRows[1].timestamp = 10
    /\ gridRows[2].timestamp = 20
    /\ Len(devRows) = 1
    /\ devRows[1].timestamp = 15
    /\ time = 3
    /\ Len(recommendations) = 1
    /\ recommendations[1].time = 3
    /\ GridFields(recommendations[1].row) = GridFields(gridRows[1])
    /\ GridFields(gridRows[1]) # GridFields(gridRows[2])

(***************************************************************************)
(* C5 as stated.  A commit that holds only a GridRow appends no entry to   *)
(* the recommendations changelog.                                          *)
(***************************************************************************)
C5_Original_GridRowAppendsNothing ==
    [][ GridRowOnly => recommendations' = recommendations ]_vars

\* The device rows whose backward as-of match the new grid row becomes and
\* whose joined grid columns it changes.
Rejoined ==
    {k \in 1..Len(devRows) :
        /\ devRows[k].timestamp >= NewGridRow.timestamp
        /\ \A i \in 1..Len(gridRows) : gridRows[i].timestamp <= NewGridRow.timestamp
        /\ GridFields(joined[k]) # GridFields(NewGridRow)}

(***************************************************************************)
(* C5 as amended.  Ingesting a GridRow inserts no RecommendationRow of     *)
(* its own: the commit appends, for each already ingested DeviceRow whose  *)
(* backward as-of match the GridRow becomes (timestamp later than or equal *)
(* to the GridRow's) and whose grid fields it changes, one retraction of   *)
(* its row and one insertion of the re-joined row, and nothing else.  The  *)
(* sum of diff over the changelog is unchanged, and a GridRow with a       *)
(* timestamp later than every ingested DeviceRow's appends nothing.        *)
(***************************************************************************)
C5_GridRowOnlyRejoins ==
    [][ GridRowOnly =>
          LET retracted == {i \in 1..Len(Appended) : Appended[i].diff = -1}
              inserted  == {i \in 1..Len(Appended) : Appended[i].diff = 1}
          IN  /\ Cardinality(retracted) = Cardinality(Rejoined)
              /\ Cardinality(inserted) = Cardinality(Rejoined)
              /\ \A i \in retracted :
                    /\ Appended[i].row \in LiveRows(recommendations)
                    /\ Appended[i].row.timestamp >= NewGridRow.timestamp
                    /\ Cardinality({j \in retracted :
                           DeviceFields(Appended[j].row) = DeviceFields(Appended[i].row)})
                         = Cardinality({j \in inserted :
                             DeviceFields(Appended[j].row) = DeviceFields(Appended[i].row)})
              /\ \A i \in inserted :
                    /\ GridFields(Appended[i].row) = GridFields(NewGridRow)
                    /\ \E j \in retracted :
                          DeviceFields(Appended[j].row) = DeviceFields(Appended[i].row)
              /\ NetDiff(recommendations', Len(recommendations'), LogRows(recommendations'))
                   = NetDiff(recommendations, Len(recommendations), LogRows(recommendations))
              /\ (\A k \in 1..Len(devRows) : devRows[k].timestamp < NewGridRow.timestamp)
                   => recommendations' = recommendations
      ]_vars

\* A grid row arrived alone after two device rows, one stamped before it
\* and one at its timestamp: only the latter was retracted and re-inserted.
C5_Witness ==
    /\ Len(gridRows) = 1
    /\ Len(devRows) = 2
    /\ Len(recommendations) = 4
    /\ \E k \in 1..2 : devRows[k].timestamp < gridRows[1].timestamp
    /\ recommendations[3].diff = -1
    /\ recommendations[3].row.timestamp = gridRows[1].timestamp
    /\ recommendations[4].diff = 1
    /\ GridFields(recommendations[4].row) = GridFields(gridRows[1])

(***************************************************************************)
(* C6.  Before any GridRow has arrived every ingested DeviceRow yields     *)
(* one RecommendationRow with carbon_intensity 500.0, carbon_level         *)
(* MEDIUM, electricity_price 0.15, pricing_tier MEDIUM, renewable_pct      *)
(* 35.0 and cost_per_hour = round(power/1000*0.15, 4), the nearest         *)
(* multiple of 0.0001; for power = 800 that is 0.12.                       *)
(***************************************************************************)
C6_DefaultsBeforeAnyGridRow ==
    gridRows = <<>> =>
        /\ Len(recommendations) = Len(devRows)
        /\ \A i \in 1..Len(recommendations) :
              LET r == recommendations[i].row
              IN  /\ recommendations[i].diff = 1
                  /\ DeviceFields(r) = DeviceFields(devRows[i])
                  /\ r.carbon_intensity = 500
                  /\ r.carbon_level = "MEDIUM"
                  /\ r.electricity_price = 1500
                  /\ r.pricing_tier = "MEDIUM"
                  /\ r.renewable_pct = 35
                  /\ 2 * Abs(1000 * r.cost_per_hour - r.power * 1500) <= 1000
                  /\ r.power = 800 => r.cost_per_hour = 1200

\* No grid row yet; rows with power 800 and with power 500 were joined.
C6_Witness ==
    /\ gridRows = <<>>
    /\ \E i \in 1..Len(recommendations) :
          recommendations[i].row.power = 800 /\ recommendations[i].row.cost_per_hour = 1200
    /\ \E i \in 1..Len(recommendations) :
          recommendations[i].row.power = 500 /\ recommendations[i].row.cost_per_hour = 750

(***************************************************************************)
(* C7.  After any interleaving of DeviceRow and GridRow arrivals the       *)
(* recommendations view holds exactly one live row per DeviceRow ingested  *)
(* so far, carrying that row's device_id, device_type, current, power and  *)
(* timestamp: for every such five columns the diffs of the entries that    *)
(* carry them sum to the number of DeviceRows that carry them, no row has  *)
(* a negative sum, and the diffs of the whole changelog sum to the number  *)
(* of DeviceRows.                                                          *)
(***************************************************************************)
C7_OneLiveRowPerDeviceRow ==
    /\ NetDiff(recommendations, Len(recommendations), LogRows(recommendations)) = Len(devRows)
    /\ \A r \in LogRows(recommendations) :
          NetDiff(recommendations, Len(recommendations), {r}) >= 0
    /\ \A k \in 1..Len(devRows) :
          NetDiff(recommendations, Len(recommendations),
                  {r \in LogRows(recommendations) : DeviceFields(r) = DeviceFields(devRows[k])})
            = Cardinality({j \in 1..Len(devRows) : DeviceFields(devRows[j]) = DeviceFields(devRows[k])})

\* Two device rows, one with no grid row at or before its timestamp and one
\* re-joined when a grid row arrived after it.
C7_Witness ==
    /\ Len(devRows) = 2
    /\ Len(gridRows) >= 1
    /\ \E i \in 1..Len(recommendations) : recommendations[i].diff = -1
    /\ \E r \in LiveRows(recommendations) : GridFields(r) = DefaultGridFields
    /\ \E r \in LiveRows(recommendations) : GridFields(r) # DefaultGridFields

(***************************************************************************)
(* C8.  A DeviceRow produces an AnomalyRow if and only if its current is   *)
(* strictly greater than 100.0, whatever its status and whatever came      *)
(* before it: the anomalies changelog is, in order, one insertion for      *)
(* each ingested DeviceRow with current > 100, carrying that row's         *)
(* columns, so a row with current exactly 100 and a fault row with         *)
(* current at or below 100 produce none.                                   *)
(***************************************************************************)
AnomalyColumns(r) == <<r.device_id, r.device_type, r.current, r.power, r.status, r.timestamp>>

AboveThreshold == SelectSeq(devRows, LAMBDA r : r.current > 100)

AlertKindByPriority(current, status) ==
    CASE status = "starting" /\ current > 100 -> "MOTOR INRUSH"
      [] ~(status = "starting" /\ current > 100) /\ status = "fault" -> "FAULT DETECTED"
      [] ~(status = "starting" /\ current > 100) /\ status # "fault" /\ current > 100
             -> "HIGH CURRENT"
      [] OTHER -> "ANOMALY"

C9_AlertByPriority ==
    /\ \A i \in 1..Len(anomalies) :
          LET r == anomalies[i].row
          IN  /\ r.alert.kind = AlertKindByPriority(r.current, r.status)
              /\ r.alert.amps10 = 10 * r.current
              /\ r.status = "starting" => r.alert.kind = "MOTOR INRUSH"
              /\ r.status = "fault" => r.alert.kind = "FAULT DETECTED"
              /\ r.status \in {"off", "running"} => r.alert.kind = "HIGH CURRENT"
    /\ \A k \in 1..Len(devRows) :
          get_anomaly_alert(devRows[k].current, devRows[k].status).kind
            = AlertKindByPriority(devRows[k].current, devRows[k].status)

\* A starting row and a fault row, both at 120 A, were emitted.
C9_Witness ==
    /\ Len(anomalies) = 2
    /\ \E i \in 1..2 :
          /\ anomalies[i].row.status = "starting"
          /\ anomalies[i].row.current = 120
          /\ anomalies[i].row.alert.kind = "MOTOR INRUSH"
    /\ \E i \in 1..2 :
          /\ anomalies[i].row.status = "fault"
          /\ anomalies[i].row.current = 120
          /\ anomalies[i].row.alert.kind = "FAULT DETECTED"

(***************************************************************************)
(* C10.  The recommendation text is chosen by first match over the rules   *)
(* (a) pricing_tier HIGH and power > 500, (b) pricing_tier HIGH and        *)
(* carbon_level HIGH, (c) carbon_level HIGH and power > 500,               *)
(* (d) pricing_tier LOW and carbon_level LOW, (e) renewable_pct > 70,      *)
(* (f) fallback: every RecommendationRow carries exactly the framing of    *)
(* the first rule its own columns match, so HIGH/600 W/HIGH selects (a)    *)
(* and HIGH/500 W/HIGH selects (b).                                        *)
(***************************************************************************)
RuleA(r) == r.pricing_tier = "HIGH" /\ r.power > 500

RuleB(r) == r.pricing_tier = "HIGH" /\ r.carbon_level = "HIGH"

RuleC(r) == r.carbon_level = "HIGH" /\ r.power > 500

RuleD(r) == r.pricing_tier = "LOW" /\ r.carbon_level = "LOW"

RuleE(r) == r.renewable_pct > 70

C10_FirstMatchingRule ==
    \A i \in 1..Len(recommendations) :
        LET r == recommendations[i].row
            f == r.recommendation.framing
        IN  /\ RuleA(r) => f = "stop_device"
            /\ ~RuleA(r) /\ RuleB(r) => f = "price_and_carbon"
            /\ ~RuleA(r) /\ ~RuleB(r) /\ RuleC(r) => f = "carbon_deferral"
            /\ ~RuleA(r) /\ ~RuleB(r) /\ ~RuleC(r) /\ RuleD(r) => f = "optimal_time"
            /\ ~RuleA(r) /\ ~RuleB(r) /\ ~RuleC(r) /\ ~RuleD(r) /\ RuleE(r)
                  => f = "clean_energy"
            /\ ~RuleA(r) /\ ~RuleB(r) /\ ~RuleC(r) /\ ~RuleD(r) /\ ~RuleE(r)
                  => f = "normal_operation"
            /\ r.recommendation.device_id = r.device_id
            /\ f \in {"price_and_carbon", "carbon_deferral"}
                  => 2 * Abs(1000 * r.recommendation.co2 - r.power * r.carbon_intensity) <= 1000

\* Under a HIGH price and HIGH carbon grid row, the 600 W row got rule (a)
\* and the 500 W row rule (b).
C10_Witness ==
    /\ \E r \in LiveRows(recommendations) :
          /\ r.pricing_tier = "HIGH" /\ r.carbon_level = "HIGH" /\ r.power = 600
          /\ r.recommendation.framing = "stop_device"
    /\ \E r \in LiveRows(recommendations) :
          /\ r.pricing_tier = "HIGH" /\ r.carbon_level = "HIGH" /\ r.power = 500
          /\ r.recommendation.framing = "price_and_carbon"

(***************************************************************************)
(* The device_stats changelog read by device type, and what one step adds. *)
(***************************************************************************)
\* The positions of the entries of type ty / of its insertions.
EntriesOfType(ty) == {i \in 1..Len(device_stats) : device_stats[i].row.device_type = ty}

InsertionsOfType(ty) == {i \in EntriesOfType(ty) : device_stats[i].diff = 1}

\* The greatest member of a non-empty set of positions.
Greatest(S) == CHOOSE i \in S : \A j \in S : j <= i

\* The device rows a step ingests and the entries it appends to device_stats.
NewDeviceRows == SubSeq(devRows', Len(devRows) + 1, Len(devRows'))

AppendedStats == SubSeq(device_stats', Len(device_stats) + 1, Len(device_stats'))

LiveStatsOfType(log, ty) == {r \in LiveRows(log) : r.device_type = ty}

C16_Original_OneUpdatePerRow ==
    \A ty \in DeviceTypes :
        Cardinality(InsertionsOfType(ty)) = Len(RowsOfType(ty))

(***************************************************************************)
(* C16 as amended.  Every commit that holds DeviceRows of a type writes    *)
(* exactly one diff = +1 entry for that type, however many rows of the     *)
(* type it holds, and a commit that holds none writes none; so the number  *)
(* of diff = +1 entries of a type is at most the number of DeviceRows of   *)
(* the type ingested, which is the total_samples of the type's live row.   *)
(***************************************************************************)
C16_OneUpdatePerCommit ==
    [][ \A ty \in DeviceTypes :
          LET held     == {i \in 1..Len(NewDeviceRows) : NewDeviceRows[i].device_type = ty}
              inserted == {i \in 1..Len(AppendedStats) :
                              /\ AppendedStats[i].diff = 1
                              /\ AppendedStats[i].row.device_type = ty}
              N        == Cardinality({i \in 1..Len(devRows') : devRows'[i].device_type = ty})
              all      == {i \in 1..Len(device_stats') :
                              /\ device_stats'[i].diff = 1
                              /\ device_stats'[i].row.device_type = ty}
          IN  /\ Cardinality(inserted) = (IF held = {} THEN 0 ELSE 1)
              /\ Cardinality(all) <= N
              /\ N >= 1 => \E r \in LiveStatsOfType(device_stats', ty) : r.total_samples = N
      ]_vars

\* Two rows of one type ingested in the same commit: one insertion, two samples.
C16_Witness ==
    /\ time = 1
    /\ Len(RowsOfType("motor")) = 2
    /\ Cardinality(InsertionsOfType("motor")) = 1
    /\ \E r \in LiveStatsOfType(device_stats, "motor") : r.total_samples = 2

(***************************************************************************)
(* C17.  Across the successive rows inserted for one device type,          *)
(* max_current never decreases and total_samples strictly increases; once  *)
(* a type has a row, every later state has a live row of that type.        *)
(***************************************************************************)
C17_MaxAndSamplesMonotone ==
    \A ty \in DeviceTypes :
        /\ \A i, j \in InsertionsOfType(ty) :
              i < j =>
                 /\ device_stats[i].row.max_current <= device_stats[j].row.max_current
                 /\ device_stats[i].row.total_samples < device_stats[j].row.total_samples
        /\ EntriesOfType(ty) # {} => Cardinality(LiveStatsOfType(device_stats, ty)) = 1

\* Three successive rows of a type: the maximum rises, then a lower current
\* arrives and the maximum stays.
C17_Witness ==
    /\ Len(RowsOfType("motor")) = 3
    /\ RowsOfType("motor")[1].current = 80
    /\ RowsOfType("motor")[2].current = 120
    /\ RowsOfType("motor")[3].current = 80
    /\ Cardinality(InsertionsOfType("motor")) = 3
    /\ \E r \in LiveStatsOfType(device_stats, "motor") :
          r.max_current = 120 /\ r.total_samples = 3

(***************************************************************************)
(* C19.  A commit leaves the live device_stats row of every type it holds  *)
(* no DeviceRow of unchanged and writes no device_stats entry of such a    *)
(* type; a commit that holds only a GridRow changes no aggregate and       *)
(* writes nothing to device_stats or anomalies.                            *)
(***************************************************************************)
C19_OtherTypesUntouched ==
    [][ /\ \A ty \in DeviceTypes :
              (\A i \in 1..Len(NewDeviceRows) : NewDeviceRows[i].device_type # ty) =>
                  /\ groups'[ty] = groups[ty]
                  /\ LiveStatsOfType(device_stats', ty) = LiveStatsOfType(device_stats, ty)
                  /\ \A i \in 1..Len(AppendedStats) : AppendedStats[i].row.device_type # ty
        /\ GridRowOnly =>
              /\ groups' = groups
              /\ device_stats' = device_stats
              /\ anomalies' = anomalies
      ]_vars

\* A type has a live row, then a commit holds only rows of the other type,
\* then a commit holds only a grid row.
C19_Witness ==
    /\ time = 3
    /\ Len(gridRows) = 1
    /\ Len(device_stats) = 2
    /\ device_stats[1].time = 1
    /\ device_stats[1].row.device_type = "hvac"
    /\ device_stats[2].time = 2
    /\ device_stats[2].row.device_type = "motor"
    /\ Cardinality(LiveStatsOfType(device_stats, "hvac")) = 1

(***************************************************************************)
(* The rows a poll yields when every fetched entry can be coerced.         *)
(***************************************************************************)
AllCoercible(entries) == \A i \in 1..Len(entries) : Coercible(entries[i])

RowsOf(entries, timestamp) ==
    [i \in 1..Len(entries) |-> YieldedRow(entries[i], timestamp)]

HandedOver == devRows \o deviceConnector

GoodEntries(entries) == SelectSeq(entries, Coercible)

(***************************************************************************)
(* C12 as stated.  When an entry of a fetched snapshot lacks a required    *)
(* field or holds a value that cannot be coerced, only that entry is       *)
(* discarded: once the poll is over, a DeviceRow has been yielded for      *)
(* every other entry of the snapshot, wherever the bad entry stands.       *)
(***************************************************************************)
C12_OnlyBadEntryDiscarded ==
    internal.pc = "sleep" =>
        internal.yielded = RowsOf(GoodEntries(internal.fetched.devices), internal.timestamp)

(***************************************************************************)
(* C15 as stated.  A successful device poll yields one DeviceRow per entry *)
(* of the fetched snapshot, and each row carries the snapshot timestamp    *)
(* unless its entry carries a timestamp of its own, which it then carries. *)
(***************************************************************************)
C15_Original_EntryTimestampWins ==
    (internal.pc = "sleep" /\ AllCoercible(internal.fetched.devices)) =>
        /\ Len(internal.yielded) = Len(internal.fetched.devices)
        /\ \A i \in 1..Len(internal.yielded) :
              internal.yielded[i].timestamp =
                  IF internal.fetched.devices[i].timestamp # NoValue
                  THEN internal.fetched.devices[i].timestamp
                  ELSE internal.timestamp

(***************************************************************************)
(* C15 as amended.  A device poll whose entries can all be coerced yields  *)
(* one DeviceRow per entry of the fetched snapshot, in the snapshot's      *)
(* order (none for an empty snapshot), and hands each to the connector;    *)
(* every row carries the snapshot timestamp, or the adapter's clock at the *)
(* poll when the snapshot has none, whether or not its entry carries a     *)
(* timestamp of its own.                                                   *)
(***************************************************************************)
C15_RowsCarrySnapshotTimestamp ==
    (internal.pc = "sleep" /\ AllCoercible(internal.fetched.devices)) =>
        LET entries == internal.fetched.devices
            n       == Len(entries)
            stamp   == IF internal.fetched.timestamp # NoValue
                       THEN internal.fetched.timestamp
                       ELSE WallClock(internal.polls)
        IN  /\ Len(internal.yielded) = n
            /\ \A i \in 1..n :
                  /\ internal.yielded[i].device_id = entries[i].device_id
                  /\ internal.yielded[i].device_type = entries[i].device_type
                  /\ internal.yielded[i].status = entries[i].status
                  /\ internal.yielded[i].voltage = entries[i].voltage
                  /\ internal.yielded[i].current = entries[i].current
                  /\ internal.yielded[i].power = entries[i].power
                  /\ internal.yielded[i].timestamp = stamp
            /\ Len(HandedOver) >= n
            /\ SubSeq(HandedOver, Len(HandedOver) - n + 1, Len(HandedOver)) = internal.yielded

\* The first poll fetched a snapshot with a timestamp, the second one without;
\* both held an entry with a stamp of its own, and every row carries the
\* snapshot's stamp or the adapter's clock.
C15_Witness ==
    /\ internal.polls = 2
    /\ internal.pc = "sleep"
    /\ internal.fetched.timestamp = NoValue
    /\ Len(internal.fetched.devices) = 2
    /\ internal.fetched.devices[1].timestamp = SourceTime(2) - 3
    /\ internal.yielded[1].timestamp = WallClock(2)
    /\ internal.yielded[2].timestamp = WallClock(2)
    /\ Len(devRows) = 2
    /\ devRows[2].device_id = "motor_2"
    /\ devRows[2].timestamp = SourceTime(1)
    /\ deviceConnector = internal.yielded

(***************************************************************************)
(* The changelog a response was read from, and the last n lines of a file. *)
(***************************************************************************)
FileOf(endpoint) ==
    IF endpoint = "anomalies" THEN anomalies
    ELSE IF endpoint = "recommendations" THEN recommendations
    ELSE device_stats

LastLines(lines, n) == SubSeq(lines, Len(lines) - Min(n, Len(lines)) + 1, Len(lines))

(***************************************************************************)
(* C14 as stated.  The statistics route (tail of the changelog, diff > 0,  *)
(* last entry per device_type) returns, for every device_type that has a   *)
(* live row in the replay of the whole device_stats changelog, exactly     *)
(* that row, and no entry for a type without a live row.                   *)
(***************************************************************************)
C14_ReadEqualsReplay ==
    response.endpoint = "statistics" =>
        \A ty \in DeviceTypes :
            LET returned == {response.body[i].row : i \in
                               {j \in 1..Len(response.body) :
                                   response.body[j].row.device_type = ty}}
            IN  returned = LiveStatsOfType(device_stats, ty)

(***************************************************************************)
(* C18 as stated.  read_latest_jsonl(filepath, max_lines) returns at most  *)
(* max_lines entries for every integer max_lines, zero and negative        *)
(* included (then none), and the entries returned are the diff > 0         *)
(* entries among the last max_lines lines of the file, in file order.      *)
(***************************************************************************)
C18_AtMostMaxLines ==
    response.endpoint \in {"anomalies", "recommendations"} =>
        LET max_lines == Max(response.limit, 0)
            lines     == FileOf(response.endpoint)
        IN  /\ Len(response.body) <= max_lines
            /\ response.body = SelectSeq(LastLines(lines, max_lines), LAMBDA data : data.diff > 0)

(***************************************************************************)
(* The row the reducer gives when it is fed the rows of one type alone,    *)
(* one by one, in the order p (a permutation of their positions).          *)
(***************************************************************************)
RECURSIVE FoldInOrder(_, _, _, _)
FoldInOrder(rows, p, n, g) ==
    IF n > Len(rows) THEN g
    ELSE FoldInOrder(rows, p, n + 1, Accumulate(g, rows[p[n]]))

C21_NoGenericAlert ==
    /\ \A i \in 1..Len(anomalies) :
          /\ anomalies[i].row.alert.kind # "ANOMALY"
          /\ anomalies[i].row.alert.kind \in {"MOTOR INRUSH", "FAULT DETECTED", "HIGH CURRENT"}
    /\ \A k \in 1..Len(devRows) :
          get_anomaly_alert(devRows[k].current, devRows[k].status).kind = "ANOMALY" =>
              /\ ~AnomalyFilter(devRows[k])
              /\ \A i \in 1..Len(anomalies) :
                    AnomalyColumns(anomalies[i].row) # AnomalyColumns(devRows[k])

\* An off row above the threshold was emitted with the high-current alert;
\* a running row at the threshold, for which the function gives the
\* fallback, was dropped by the filter.
C21_Witness ==
    /\ Len(devRows) = 2
    /\ Len(anomalies) = 1
    /\ anomalies[1].row.status = "off"
    /\ anomalies[1].row.current = 120
    /\ anomalies[1].row.alert.kind = "HIGH CURRENT"
    /\ \E k \in 1..2 :
          /\ devRows[k].status = "running"
          /\ devRows[k].current = 100
          /\ get_anomaly_alert(devRows[k].current, devRows[k].status).kind = "ANOMALY"

====
